---- MODULE Spec2Model ----
(***************************************************************************)
(* A model of paramspider/main.py: the retrying fetch of the archive       *)
(* index (fetch_url_content), the URL cleaning (clean_url, has_extension,  *)
(* clean_urls), the per-endpoint merge (merge_parameters), and the         *)
(* per-domain driver (fetch_and_clean_urls, main).                         *)
(*                                                                         *)
(* A Python str is a sequence of one-character strings, so that parsing    *)
(* and re-serialising a URL are computed, not assumed.  The characters     *)
(* ';', '@', '[' and ']' never occur in the modelled inputs, so the        *)
(* ';params' split of urlparse, userinfo and IPv6 literals are left out.   *)
(***************************************************************************)
EXTENDS Integers, Sequences, FiniteSets, TLC

(***************************************************************************)
(* Text helpers (Python str methods).                                      *)
(***************************************************************************)
\* F(v), with v evaluated once and bound as a value: a local variable.
Eval(v, F(_)) == CHOOSE r \in {F(x) : x \in {v}} : TRUE

Min(S) == Eval(S, LAMBDA T : CHOOSE x \in T : \A y \in T : x <= y)
Max(S) == Eval(S, LAMBDA T : CHOOSE x \in T : \A y \in T : x >= y)

\* s.find(c), 1-based, searching from index `from`; 0 when absent.
Find(s, c, from) ==
    Eval({i \in from..Len(s) : s[i] = c}, LAMBDA I : IF I = {} THEN 0 ELSE Min(I))

\* s.rfind(c), 1-based; 0 when absent.
RFind(s, c) ==
    Eval({i \in 1..Len(s) : s[i] = c}, LAMBDA I : IF I = {} THEN 0 ELSE Max(I))

\* s[from:] with a 1-based `from`.
Tail_(s, from) == SubSeq(s, from, Len(s))

\* s.partition(c): the text before the first c and the text after it.
Partition(s, c) ==
    Eval(Find(s, c, 1), LAMBDA i :
        IF i > 0 THEN <<SubSeq(s, 1, i - 1), Tail_(s, i + 1)>> ELSE <<s, <<>> >>)

UpperToLower ==
    [c \in {"A","B","C","D","E","F","G","H","I","J","K","L","M","N","O","P","Q",
            "R","S","T","U","V","W","X","Y","Z"} |->
        CASE c = "A" -> "a" [] c = "B" -> "b" [] c = "C" -> "c" [] c = "D" -> "d"
          [] c = "E" -> "e" [] c = "F" -> "f" [] c = "G" -> "g" [] c = "H" -> "h"
          [] c = "I" -> "i" [] c = "J" -> "j" [] c = "K" -> "k" [] c = "L" -> "l"
          [] c = "M" -> "m" [] c = "N" -> "n" [] c = "O" -> "o" [] c = "P" -> "p"
          [] c = "Q" -> "q" [] c = "R" -> "r" [] c = "S" -> "s" [] c = "T" -> "t"
          [] c = "U" -> "u" [] c = "V" -> "v" [] c = "W" -> "w" [] c = "X" -> "x"
          [] c = "Y" -> "y" [] c = "Z" -> "z"]

LowerLetters ==
    {"a","b","c","d","e","f","g","h","i","j","k","l","m","n","o","p","q",
     "r","s","t","u","v","w","x","y","z"}

DigitValue ==
    [c \in {"0","1","2","3","4","5","6","7","8","9"} |->
        CASE c = "0" -> 0 [] c = "1" -> 1 [] c = "2" -> 2 [] c = "3" -> 3
          [] c = "4" -> 4 [] c = "5" -> 5 [] c = "6" -> 6 [] c = "7" -> 7
          [] c = "8" -> 8 [] c = "9" -> 9]

IsAlpha(c) == c \in LowerLetters \/ c \in DOMAIN UpperToLower
IsDigit(c) == c \in DOMAIN DigitValue

\* str.lower()
Lower(s) ==
    Eval(s, LAMBDA v : [i \in 1..Len(v) |-> IF v[i] \in DOMAIN UpperToLower
                                            THEN UpperToLower[v[i]] ELSE v[i]])

\* int(s) for a string of decimal digits.
RECURSIVE ToInt(_)
ToInt(s) ==
    Eval(s, LAMBDA v :
        IF v = <<>> THEN 0
        ELSE 10 * ToInt(SubSeq(v, 1, Len(v) - 1)) + DigitValue[v[Len(v)]])

\* str.split(): the maximal runs of non-whitespace characters.
Whitespace == {" ", "\n", "\t"}
RECURSIVE Split(_)
Split(s) ==
    Eval(s, LAMBDA v :
        IF v = <<>> THEN <<>>
        ELSE IF v[1] \in Whitespace THEN Split(Tail(v))
        ELSE Eval({i \in 1..Len(v) : v[i] \in Whitespace}, LAMBDA W :
                Eval(IF W = {} THEN Len(v) + 1 ELSE Min(W), LAMBDA e :
                    <<SubSeq(v, 1, e - 1)>> \o Split(Tail_(v, e)))))

\* sep.join(parts)
RECURSIVE Join(_, _)
Join(parts, sep) ==
    Eval(parts, LAMBDA v :
        IF v = <<>> THEN <<>>
        ELSE IF Len(v) = 1 THEN v[1]
        ELSE v[1] \o sep \o Join(Tail(v), sep))

\* s.split(sep) for a one-character separator: always at least one piece.
RECURSIVE SplitOn(_, _)
SplitOn(s, sep) ==
    Eval(s, LAMBDA v :
        Eval(Find(v, sep, 1), LAMBDA i :
            IF i = 0 THEN <<v>>
            ELSE <<SubSeq(v, 1, i - 1)>> \o SplitOn(Tail_(v, i + 1), sep)))

(***************************************************************************)
(* urllib.parse as main.py uses it.                                        *)
(***************************************************************************)
HTTP == <<"h","t","t","p">>
HTTPS == <<"h","t","t","p","s">>

SchemeChars == LowerLetters \cup DOMAIN UpperToLower \cup DOMAIN DigitValue
                 \cup {"+", "-", "."}

\* urlsplit: the scheme (lowercased) and the text after its colon.
SchemeAndRest(url) ==
    Eval(Find(url, ":", 1), LAMBDA i :
        IF /\ i > 1
           /\ IsAlpha(url[1])
           /\ \A k \in 1..(i - 1) : url[k] \in SchemeChars
        THEN <<Lower(SubSeq(url, 1, i - 1)), Tail_(url, i + 1)>>
        ELSE << <<>>, url >>)

\* urlsplit: after "//", the netloc runs to the first of "/", "?", "#".
NetlocAndRest(rest) ==
    IF Len(rest) >= 2 /\ rest[1] = "/" /\ rest[2] = "/"
    THEN Eval({k \in 3..Len(rest) : rest[k] \in {"/", "?", "#"}}, LAMBDA D :
            Eval(IF D = {} THEN Len(rest) + 1 ELSE Min(D), LAMBDA delim :
                <<SubSeq(rest, 3, delim - 1), Tail_(rest, delim)>>))
    ELSE << <<>>, rest >>

\* urlparse(url): scheme, netloc, path, query, fragment.
UrlParse(url) ==
    Eval(url, LAMBDA u :
    Eval(SchemeAndRest(u), LAMBDA a :
    Eval(NetlocAndRest(a[2]), LAMBDA b :
    Eval(Partition(b[2], "#"), LAMBDA c :
    Eval(Partition(c[1], "?"), LAMBDA d :
        [scheme |-> a[1], netloc |-> b[1], path |-> d[1], query |-> d[2],
         fragment |-> c[2]])))))

\* ParseResult.geturl() / urlunparse(components)
UrlUnparse(parts) ==
    Eval(parts, LAMBDA p :
        (IF p.scheme # <<>> THEN p.scheme \o <<":">> ELSE <<>>)
        \o (IF \/ p.netloc # <<>>
               \/ /\ p.scheme \in {HTTP, HTTPS}
                  /\ ~(Len(p.path) >= 2 /\ p.path[1] = "/" /\ p.path[2] = "/")
            THEN <<"/", "/">> \o p.netloc
                   \o (IF p.path # <<>> /\ p.path[1] # "/" THEN <<"/">> ELSE <<>>)
            ELSE <<>>)
        \o p.path
        \o (IF p.query # <<>> THEN <<"?">> \o p.query ELSE <<>>)
        \o (IF p.fragment # <<>> THEN <<"#">> \o p.fragment ELSE <<>>))

\* ParseResult.port: None, an int, or ValueError (non-numeric, or above 65535).
Port(netloc) ==
    Eval(Partition(netloc, ":")[2], LAMBDA port :
        IF port = <<>> THEN [kind |-> "None", val |-> 0]
        ELSE IF \E k \in 1..Len(port) : ~IsDigit(port[k])
             THEN [kind |-> "ValueError", val |-> 0]
        ELSE Eval(ToInt(port), LAMBDA n :
                IF n > 65535 THEN [kind |-> "ValueError", val |-> 0]
                ELSE [kind |-> "int", val |-> n]))

\* netloc.rsplit(":", 1)[0]
RSplitColon(netloc) ==
    Eval(RFind(netloc, ":"), LAMBDA c :
        IF c > 0 THEN SubSeq(netloc, 1, c - 1) ELSE netloc)

\* os.path.splitext(path)[1]: the text from the last dot of the last segment,
\* unless only dots precede it there.
SplitExt(path) ==
    Eval(<<RFind(path, "/"), RFind(path, ".")>>, LAMBDA x :
        IF x[2] > x[1] /\ \E k \in (x[1] + 1)..(x[2] - 1) : path[k] # "."
        THEN Tail_(path, x[2])
        ELSE <<>>)

\* The characters quote_plus leaves alone (letters, digits and "_.-~").
QuoteSafe == LowerLetters \cup DOMAIN UpperToLower \cup DOMAIN DigitValue
               \cup {"_", ".", "-", "~"}

\* The %XX codes of the other characters that occur in the modelled inputs.
PercentCode ==
    [c \in {"/", ":", "?", "=", "&", "#", "%", "+"} |->
        CASE c = "/" -> <<"2", "F">> [] c = ":" -> <<"3", "A">>
          [] c = "?" -> <<"3", "F">> [] c = "=" -> <<"3", "D">>
          [] c = "&" -> <<"2", "6">> [] c = "#" -> <<"2", "3">>
          [] c = "%" -> <<"2", "5">> [] c = "+" -> <<"2", "B">>]

\* quote_plus(s), which urlencode applies to every name and value.
RECURSIVE QuotePlus(_)
QuotePlus(s) ==
    Eval(s, LAMBDA v :
        IF v = <<>> THEN <<>>
        ELSE (IF v[1] \in QuoteSafe THEN <<v[1]>>
              ELSE IF v[1] = " " THEN <<"+">>
              ELSE <<"%">> \o PercentCode[v[1]]) \o QuotePlus(Tail(v)))

\* unquote(s.replace('+', ' ')), which parse_qsl applies to every name and value.
RECURSIVE Unquote(_)
Unquote(s) ==
    Eval(s, LAMBDA v :
        IF v = <<>> THEN <<>>
        ELSE IF v[1] = "+" THEN <<" ">> \o Unquote(Tail(v))
        ELSE IF v[1] = "%" /\ Len(v) >= 3
                /\ \E c \in DOMAIN PercentCode : PercentCode[c] = <<v[2], v[3]>>
             THEN <<CHOOSE c \in DOMAIN PercentCode : PercentCode[c] = <<v[2], v[3]>> >>
                    \o Unquote(Tail_(v, 4))
        ELSE <<v[1]>> \o Unquote(Tail(v)))

\* parse_qsl(qs): the (name, value) pairs, blank values dropped
\* (keep_blank_values=False), pieces without '=' dropped (strict_parsing=False).
RECURSIVE ParseQslPieces(_)
ParseQslPieces(pieces) ==
    Eval(pieces, LAMBDA v :
        IF v = <<>> THEN <<>>
        ELSE Eval(<<Find(v[1], "=", 1), Partition(v[1], "=")>>, LAMBDA nv :
                (IF nv[1] = 0 \/ nv[2][2] = <<>> THEN <<>>
                 ELSE << <<Unquote(nv[2][1]), Unquote(nv[2][2])>> >>)
                \o ParseQslPieces(Tail(v))))

ParseQsl(qs) ==
    Eval(qs, LAMBDA v : IF v = <<>> THEN <<>> ELSE ParseQslPieces(SplitOn(v, "&")))

\* A dict is a sequence of [key, val] entries in insertion order.
DictKeys(d) == {d[i].key : i \in 1..Len(d)}
DictIndex(d, k) == CHOOSE i \in 1..Len(d) : d[i].key = k

\* parse_qs(qs): name -> list of values, names in order of first appearance.
RECURSIVE ParseQsFold(_, _)
ParseQsFold(pairs, dict) ==
    Eval(<<pairs, dict>>, LAMBDA x :
        IF x[1] = <<>> THEN x[2]
        ELSE ParseQsFold(Tail(x[1]),
                IF x[1][1][1] \in DictKeys(x[2])
                THEN [x[2] EXCEPT ![DictIndex(x[2], x[1][1][1])].val =
                                        @ \o <<x[1][1][2]>>]
                ELSE Append(x[2], [key |-> x[1][1][1], val |-> <<x[1][1][2]>>])))

ParseQs(qs) == ParseQsFold(ParseQsl(qs), <<>>)

\* urlencode(d, doseq=True): one "k=v" per element of a list value; a str value
\* is held here as a one-element list, for which urlencode emits one "k=v".
EncodePairs(dict) ==
    Eval(dict, LAMBDA d :
        Eval([i \in 1..Len(d) |-> QuotePlus(d[i].key)], LAMBDA k :
            [i \in 1..Len(d) |->
                [j \in 1..Len(d[i].val) |->
                    k[i] \o <<"=">> \o QuotePlus(d[i].val[j])]]))

RECURSIVE Concat(_)
Concat(lists) ==
    Eval(lists, LAMBDA v : IF v = <<>> THEN <<>> ELSE v[1] \o Concat(Tail(v)))

UrlEncode(d) == Join(Concat(EncodePairs(d)), <<"&">>)

(***************************************************************************)
(* main.py: has_extension, clean_url, clean_urls, merge_parameters.        *)
(***************************************************************************)
\* The marker a raised ValueError is modelled by (no URL holds this token).
ValueError == <<"ValueError">>

\* The value of a placeholder that is None (or ""): `if placeholder:` is false.
NoPlaceholder == <<>>

\* has_extension(url, extensions)
HasExtension(url, extensions) ==
    Eval(Lower(SplitExt(UrlParse(url).path)), LAMBDA extension :
        \E i \in 1..Len(extensions) : extensions[i] = extension)

\* A clean_url that knows port 80 of http only.
CleanUrlHttpOnly(url) ==
    Eval(UrlParse(url), LAMBDA parsed_url :
    Eval(Port(parsed_url.netloc), LAMBDA port :
        IF port.kind = "ValueError" THEN ValueError
        ELSE IF port.kind = "int" /\ port.val = 80 /\ parsed_url.scheme = HTTP
             THEN UrlUnparse([parsed_url EXCEPT !.netloc = RSplitColon(@)])
        ELSE UrlUnparse(parsed_url)))

\* clean_url(url): the URL without a default port, or ValueError from .port.
CleanUrl(url) ==
    Eval(UrlParse(url), LAMBDA parsed_url :
    Eval(Port(parsed_url.netloc), LAMBDA port :
        IF port.kind = "ValueError" THEN ValueError
        ELSE IF \/ (port.kind = "int" /\ port.val = 80 /\ parsed_url.scheme = HTTP)
                \/ (port.kind = "int" /\ port.val = 443 /\ parsed_url.scheme = HTTPS)
             THEN UrlUnparse([parsed_url EXCEPT !.netloc = RSplitColon(@)])
        ELSE UrlUnparse(parsed_url)))

\* The dict clean_urls encodes: every key bound to the placeholder, or the
\* parsed lists as they are.
CleanedParams(query_params, placeholder) ==
    IF placeholder # NoPlaceholder
    THEN [i \in 1..Len(query_params) |->
             [key |-> query_params[i].key, val |-> <<placeholder>>]]
    ELSE query_params

\* The body of the loop of clean_urls for a URL that passed has_extension.
RewriteQuery(cleaned_url, placeholder) ==
    Eval(UrlParse(cleaned_url), LAMBDA parsed_url :
    Eval(ParseQs(parsed_url.query), LAMBDA query_params :
    Eval(UrlEncode(CleanedParams(query_params, placeholder)), LAMBDA cleaned_query :
        UrlUnparse([parsed_url EXCEPT !.query = cleaned_query]))))

\* clean_urls(urls, extensions, placeholder): the set cleaned_urls, or the
\* ValueError that clean_url raised for some token (nothing catches it).
CleanUrls(urls, extensions, placeholder) ==
    Eval([i \in 1..Len(urls) |-> CleanUrl(urls[i])], LAMBDA cleaned :
        IF \E i \in 1..Len(cleaned) : cleaned[i] = ValueError
        THEN [raised |-> TRUE, urls |-> {}]
        ELSE [raised |-> FALSE,
              urls |-> {RewriteQuery(cleaned[i], placeholder) :
                          i \in {j \in 1..Len(cleaned) :
                                   ~HasExtension(cleaned[j], extensions)}}])

\* The key merge_parameters groups by: the URL with its query emptied.
Endpoint(url) == UrlUnparse([UrlParse(url) EXCEPT !.query = <<>>])

\* The inner loop of merge_parameters: the parameters of one URL added to
\* endpoint_params, whose entry for the endpoint is created by the first key.
RECURSIVE AddParams(_, _, _)
AddParams(endpoint_params, endpoint, params) ==
    Eval(<<endpoint_params, endpoint, params>>, LAMBDA x :
        IF x[3] = <<>> THEN x[1]
        ELSE
        Eval(IF x[2] \in DictKeys(x[1]) THEN x[1]
             ELSE Append(x[1], [key |-> x[2], val |-> <<>>]), LAMBDA ep :
        Eval(DictIndex(ep, x[2]), LAMBDA e :
        Eval([key |-> x[3][1].key,
              value |-> {x[3][1].val[i] : i \in 1..Len(x[3][1].val)}], LAMBDA kv :
            AddParams(
                IF kv.key \in DictKeys(ep[e].val)
                THEN [ep EXCEPT ![e].val[DictIndex(ep[e].val, kv.key)].val =
                                     @ \cup kv.value]
                ELSE [ep EXCEPT ![e].val =
                                     Append(@, [key |-> kv.key, val |-> kv.value])],
                x[2], Tail(x[3]))))))

\* The first loop of merge_parameters.
RECURSIVE EndpointParams(_, _)
EndpointParams(urls, endpoint_params) ==
    Eval(<<urls, endpoint_params>>, LAMBDA x :
        IF x[1] = <<>> THEN x[2]
        ELSE EndpointParams(Tail(x[1]),
                AddParams(x[2], Endpoint(x[1][1]), ParseQs(UrlParse(x[1][1]).query))))

\* The sets of values list(values)[0] is taken from.
ValueSets(endpoint_params) ==
    Eval(endpoint_params, LAMBDA ep :
        UNION {{ep[i].val[j].val : j \in 1..Len(ep[i].val)} : i \in 1..Len(ep)})

\* list(values)[0]: an element of the set, in the order the build iterates it.
FirstOf(values, pick) == pick[values]

\* The second loop of merge_parameters; pick gives, for each set of values,
\* the element that comes first when the set is listed.
MergedUrls(endpoint_params, pick) ==
    Eval(endpoint_params, LAMBDA ep :
        [i \in 1..Len(ep) |->
            UrlUnparse([UrlParse(ep[i].key) EXCEPT !.query =
                UrlEncode([j \in 1..Len(ep[i].val) |->
                    [key |-> ep[i].val[j].key,
                     val |-> <<FirstOf(ep[i].val[j].val, pick)>>]])])])

\* merge_parameters(urls)
MergeParameters(urls, pick) == MergedUrls(EndpointParams(urls, <<>>), pick)

\* The orders in which the sets can be listed.
Picks(sets) ==
    Eval(sets, LAMBDA S : {f \in [S -> UNION S] : \A V \in S : f[V] \in V})

(***************************************************************************)
(* Inputs: the archive's tokens, the command line, the file system.        *)
(***************************************************************************)
\* Bounds of the model.
MaxUrls == 2
MaxRetries == 6

\* Program constants.
DefaultMaxRetries == 5
InitialWait == 10
WaitStep == 5

Host == <<"h">>
FUZZ == <<"F","U","Z","Z">>
A_PATH == <<"/","a">>
PNG_PATH == <<"/","l",".","p","n","g">>
UPPER_PNG_PATH == <<"/","l",".","P","N","G">>
X1 == <<"x","=","1">>
X2 == <<"x","=","2">>
REPEATED == <<"x","=","1","&","x","=","2","&","y","=","3">>
BLANK == <<"x","=","&","y","=","1">>
SLASHED == <<"x","=","a","/","b">>
TXT == <<".","t","x","t">>

HARDCODED_EXTENSIONS ==
    << <<".","j","p","g">>, <<".","j","p","e","g">>, <<".","p","n","g">>,
       <<".","g","i","f">>, <<".","p","d","f">>, <<".","s","v","g">>,
       <<".","j","s","o","n">>, <<".","c","s","s">>, <<".","j","s">>,
       <<".","w","e","b","p">>, <<".","w","o","f","f">>,
       <<".","w","o","f","f","2">>, <<".","e","o","t">>, <<".","t","t","f">>,
       <<".","o","t","f">>, <<".","m","p","4">>, TXT >>

\* An extension list given with -e, as the user typed it.
USER_EXTENSIONS == << <<".","P","N","G">> >>

\* An archived URL by its parts, and the text the archive holds for it.
Rec(scheme, host, port, path, query, fragment) ==
    [scheme |-> scheme, host |-> host, port |-> port, path |-> path,
     query |-> query, fragment |-> fragment]

Format(r) ==
    r.scheme \o <<":", "/", "/">> \o r.host
      \o (IF r.port # <<>> THEN <<":">> \o r.port ELSE <<>>)
      \o r.path
      \o (IF r.query # <<>> THEN <<"?">> \o r.query ELSE <<>>)
      \o (IF r.fragment # <<>> THEN <<"#">> \o r.fragment ELSE <<>>)

PORT_80 == <<"8","0">>
PORT_443 == <<"4","4","3">>
PORT_8080 == <<"8","0","8","0">>

PoolRecords ==
    {Rec(HTTP, Host, p, A_PATH, X1, <<>>) : p \in {<<>>, PORT_80, PORT_443, PORT_8080}}
    \cup {Rec(HTTPS, Host, p, A_PATH, X1, <<>>) : p \in {<<>>, PORT_80, PORT_443}}
    \cup {Rec(HTTP, Host, <<>>, A_PATH, q, <<>>) : q \in {<<>>, REPEATED, BLANK, SLASHED}}
    \cup {Rec(HTTP, Host, <<>>, A_PATH, X1, <<"f">>)}

Pool == {Format(r) : r \in PoolRecords}

\* A token whose port is not a number.
MALFORMED == <<"h","t","t","p",":","/","/","h",":","a","b","/","a","?","x","=","1">>

\* The response of the end-to-end scenario.
EXAMPLE_COM == <<"e","x","a","m","p","l","e",".","c","o","m">>
LOGO_PATH == <<"/","l","o","g","o",".","p","n","g">>
ExampleRecords ==
    << Rec(HTTP, EXAMPLE_COM, PORT_80, A_PATH, X1, <<>>),
       Rec(HTTP, EXAMPLE_COM, <<>>, A_PATH, X2, <<>>),
       Rec(HTTP, EXAMPLE_COM, <<>>, LOGO_PATH, <<>>, <<>>) >>
EXAMPLE == [i \in 1..Len(ExampleRecords) |-> Format(ExampleRecords[i])]

\* The sequences over S of length at most n.
SeqsUpTo(S, n) == UNION {[1..k -> S] : k \in 0..n}

\* The body the archive answers with for a list of tokens: one per line.
Body(tokens) == Join(tokens, <<"\n">>)

\* What a successful GET may return to main: a few whole responses.
ArchiveBodies ==
    {Body(t) : t \in {<<>>, EXAMPLE,
                      <<Format(Rec(HTTP, Host, <<>>, A_PATH, X1, <<>>)),
                        Format(Rec(HTTP, Host, <<>>, A_PATH, X2, <<>>))>>,
                      <<MALFORMED, Format(Rec(HTTP, Host, <<>>, A_PATH, X1, <<>>))>>,
                      <<Format(Rec(HTTP, Host, <<>>, PNG_PATH, X1, <<>>))>>,
                      <<Format(Rec(HTTP, Host, <<>>, UPPER_PNG_PATH, X1, <<>>))>>}}

\* The responses clean_urls and merge_parameters are explored on.
UrlBodies == {Body(t) : t \in SeqsUpTo(Pool, MaxUrls) \cup {EXAMPLE}}

DOMAIN_A == <<"a",".","i","o">>
DOMAIN_B == <<"b",".","i","o">>
OUT_FILE == <<"o","u","t">>
OLD_LINE == <<"o","l","d">>

\* output_file of main: args.output, or "<domain>.txt".
OutputFile(output, d) == IF output # <<>> THEN output ELSE d \o TXT

FileNames == {OutputFile(<<>>, d) : d \in {DOMAIN_A, DOMAIN_B, Host}} \cup {OUT_FILE}

Absent == [exists |-> FALSE, lines |-> <<>>]

\* The orders list(a_set) can have.
Orders(S) == {o \in [1..Cardinality(S) -> S] : {o[i] : i \in DOMAIN o} = S}

Range(q) == {q[i] : i \in 1..Len(q)}

(***************************************************************************)
(* The program.                                                            *)
(***************************************************************************)
VARIABLES
    pc,            \* where the program is
    args,          \* the parsed command line
    domains,       \* the domains the loop of main has still to visit
    domain,        \* fetch_and_clean_urls: domain
    output_file,   \* fetch_and_clean_urls: output_file
    max_retries,   \* fetch_url_content: max_retries
    retries,       \* fetch_url_content: retries
    wait_time,     \* fetch_url_content: wait_time
    exc,           \* fetch_url_content: the exception last caught
    response,      \* what fetch_url_content returned
    urls,          \* fetch_and_clean_urls: urls
    cleaned_urls,  \* fetch_and_clean_urls: cleaned_urls
    merged_urls,   \* fetch_and_clean_urls: merged_urls
    files,         \* the file system: name -> whether it exists, and its lines
    stdout,        \* the lines printed
    log,           \* the notices logged for the current domain
    attempts,      \* the outcome of each GET of the current fetch
    slept,         \* the duration of each sleep of the current fetch
    calls,         \* the steps taken for the current domain, in order
    filesAtStart,  \* files when the current domain began
    stdoutAtStart, \* stdout when the current domain began
    visited        \* the domains fetch_and_clean_urls was called for

vars == <<pc, args, domains, domain, output_file, max_retries, retries, wait_time,
          exc, response, urls, cleaned_urls, merged_urls, files, stdout, log,
          attempts, slept, calls, filesAtStart, stdoutAtStart, visited>>

fetchVars == <<max_retries, retries, wait_time, exc, attempts, slept>>
pipeVars == <<urls, cleaned_urls, merged_urls>>
mainVars == <<args, domains, domain, output_file, filesAtStart, stdoutAtStart, visited>>

Unset == [kind |-> "unset", text |-> <<>>]
None == [kind |-> "None", text |-> <<>>]
Notice(kind, n) == [kind |-> kind, n |-> n]

\* requests.get(url), through the proxy when one is given, and how it ended.
Get(proxy, outcome) == [proxied |-> proxy # <<>>, outcome |-> outcome]

\* A loop that tests `retries <= max_retries`.
LoopCondInclusive(r, m) == r <= m

\* The while condition of fetch_url_content.
LoopCond(r, m) == r < m

\* A backoff that doubles the wait.
NextWaitDoubled(w) == w + w

\* wait_time += 5
NextWait(w) == w + WaitStep

\* A fetch_and_clean_urls without the test of the response.
IsNoneNever(r) == FALSE

\* `response is None` in fetch_and_clean_urls.
IsNone(r) == r.kind = "None"

\* The locals of a call of fetch_url_content(url, proxy, m).
FetchEntry(m) ==
    /\ max_retries' = m
    /\ retries' = 0
    /\ wait_time' = InitialWait
    /\ exc' = "none"
    /\ attempts' = <<>>
    /\ slept' = <<>>
    /\ response' = Unset

\* main: the next domain of the loop, up to the call of fetch_url_content;
\* or the end of the loop.
MainLoop ==
    /\ pc = "main"
    /\ IF domains = <<>>
       THEN /\ pc' = "exit"
            /\ UNCHANGED <<mainVars, fetchVars, pipeVars, response, files, stdout,
                           log, calls>>
       ELSE /\ domain' = Head(domains)
            /\ domains' = Tail(domains)
            /\ output_file' = OutputFile(args.output, Head(domains))
            /\ visited' = Append(visited, Head(domains))
            /\ log' = <<Notice("fetching", 0)>>
            /\ calls' = <<>>
            /\ filesAtStart' = files
            /\ stdoutAtStart' = stdout
            /\ FetchEntry(DefaultMaxRetries)
            /\ pc' = "fetch"
            /\ UNCHANGED <<args, pipeVars, files, stdout>>

\* fetch_url_content: an attempt whose GET succeeds with a success status.
FetchOk ==
    /\ pc = "fetch"
    /\ LoopCond(retries, max_retries)
    /\ \E body \in ArchiveBodies :
          response' = [kind |-> "response", text |-> body]
    /\ attempts' = Append(attempts, Get(args.proxy, "ok"))
    /\ calls' = Append(calls, "fetch_returned_response")
    /\ pc' = "fetched"
    /\ UNCHANGED <<mainVars, pipeVars, max_retries, retries, wait_time, exc, slept,
                   files, stdout, log>>

\* fetch_url_content: an attempt that raises a RequestException, from the
\* transport (requests.get) or from the status (raise_for_status).
FetchFail ==
    /\ pc = "fetch"
    /\ LoopCond(retries, max_retries)
    /\ \E err \in {"transport", "status"} : exc' = err
    /\ retries' = retries + 1
    /\ log' = Append(log, Notice("retrying", wait_time))
    /\ slept' = Append(slept, wait_time)
    /\ wait_time' = NextWait(wait_time)
    /\ attempts' = Append(attempts, Get(args.proxy, "failed"))
    /\ UNCHANGED <<mainVars, pipeVars, pc, max_retries, response, files, stdout, calls>>

\* fetch_url_content: the loop is over; the failure is logged, None returned.
FetchExhausted ==
    /\ pc = "fetch"
    /\ ~LoopCond(retries, max_retries)
    /\ log' = Append(log, Notice("failed_after_retries", max_retries))
    /\ response' = None
    /\ calls' = Append(calls, "fetch_returned_None")
    /\ pc' = "fetched"
    /\ UNCHANGED <<mainVars, pipeVars, fetchVars, files, stdout>>

\* fetch_and_clean_urls: the fetch failed; log it and return to main.
FetchFailedReturn ==
    /\ pc = "fetched"
    /\ IsNone(response)
    /\ log' = Append(log, Notice("domain_failed", 0))
    /\ pc' = "main"
    /\ UNCHANGED <<mainVars, pipeVars, fetchVars, response, files, stdout, calls>>

\* fetch_and_clean_urls: urls = response.text.split()
SplitResponse ==
    /\ pc = "fetched"
    /\ ~IsNone(response)
    /\ urls' = Split(response.text)
    /\ log' = Append(log, Notice("found", Len(Split(response.text))))
    /\ pc' = "clean"
    /\ UNCHANGED <<mainVars, fetchVars, response, cleaned_urls, merged_urls, files,
                   stdout, calls>>

\* fetch_and_clean_urls: cleaned_urls = clean_urls(urls, extensions, placeholder);
\* a ValueError leaves fetch_and_clean_urls and main, which catch nothing.
DoClean ==
    /\ pc = "clean"
    /\ calls' = Append(calls, "clean_urls")
    /\ LET r == CleanUrls(urls, args.extensions, args.placeholder)
       IN IF r.raised
          THEN /\ pc' = "crashed"
               /\ UNCHANGED <<cleaned_urls, log>>
          ELSE /\ \E order \in Orders(r.urls) : cleaned_urls' = order
               /\ log' = Append(log, Notice("cleaned", Cardinality(r.urls)))
               /\ pc' = "merge"
    /\ UNCHANGED <<mainVars, fetchVars, response, urls, merged_urls, files, stdout>>

\* fetch_and_clean_urls: merged_urls = merge_parameters(cleaned_urls)
DoMerge ==
    /\ pc = "merge"
    /\ calls' = Append(calls, "merge_parameters")
    /\ \E pick \in Picks(ValueSets(EndpointParams(cleaned_urls, <<>>))) :
          merged_urls' = MergeParameters(cleaned_urls, pick)
    /\ log' = Append(log, Notice("merged", Len(merged_urls')))
    /\ pc' = "write"
    /\ UNCHANGED <<mainVars, fetchVars, response, urls, cleaned_urls, files, stdout>>

\* fetch_and_clean_urls: the merged URLs appended to the output file (created
\* when it does not exist) and, with -s, printed.
DoWrite ==
    /\ pc = "write"
    /\ calls' = Append(calls, "write")
    /\ files' = IF output_file # <<>>
                THEN [files EXCEPT ![output_file] =
                        [exists |-> TRUE,
                         lines |-> (IF @.exists THEN @.lines ELSE <<>>) \o merged_urls]]
                ELSE files
    /\ stdout' = IF args.stream THEN stdout \o merged_urls ELSE stdout
    /\ log' = IF output_file # <<>> THEN Append(log, Notice("saved", 0)) ELSE log
    /\ pc' = "main"
    /\ UNCHANGED <<mainVars, fetchVars, response, pipeVars>>

(***************************************************************************)
(* The whole program: main over one domain or a list of two.               *)
(***************************************************************************)
Idle ==
    /\ pc = "main"
    /\ domain = <<>>
    /\ output_file = <<>>
    /\ max_retries = DefaultMaxRetries
    /\ retries = 0
    /\ wait_time = InitialWait
    /\ exc = "none"
    /\ response = Unset
    /\ urls = <<>>
    /\ cleaned_urls = <<>>
    /\ merged_urls = <<>>
    /\ stdout = <<>>
    /\ log = <<>>
    /\ attempts = <<>>
    /\ slept = <<>>
    /\ calls = <<>>
    /\ stdoutAtStart = <<>>
    /\ visited = <<>>

Init ==
    /\ Idle
    /\ args \in [stream : BOOLEAN, proxy : {<<>>}, placeholder : {NoPlaceholder, FUZZ},
                 extensions : {HARDCODED_EXTENSIONS, USER_EXTENSIONS},
                 output : {<<>>, OUT_FILE}]
    /\ domains \in {<<DOMAIN_A>>, <<DOMAIN_A, DOMAIN_B>>}
    /\ \E old \in {Absent, [exists |-> TRUE, lines |-> <<OLD_LINE>>]} :
          files = [f \in FileNames |-> old]
    /\ filesAtStart = files

Next ==
    \/ MainLoop
    \/ FetchOk
    \/ FetchFail
    \/ FetchExhausted
    \/ FetchFailedReturn
    \/ SplitResponse
    \/ DoClean
    \/ DoMerge
    \/ DoWrite

Spec == Init /\ [][Next]_vars

(***************************************************************************)
(* fetch_url_content alone, for every max_retries and with or without a    *)
(* proxy.                                                                  *)
(***************************************************************************)
PROXY == <<"p">>

InitFetch ==
    /\ pc = "fetch"
    /\ args \in [stream : {FALSE}, proxy : {<<>>, PROXY}, placeholder : {NoPlaceholder},
                 extensions : {HARDCODED_EXTENSIONS}, output : {<<>>}]
    /\ max_retries \in 0..MaxRetries
    /\ retries = 0
    /\ wait_time = InitialWait
    /\ exc = "none"
    /\ response = Unset
    /\ attempts = <<>>
    /\ slept = <<>>
    /\ domains = <<>>
    /\ domain = Host
    /\ output_file = <<>>
    /\ urls = <<>>
    /\ cleaned_urls = <<>>
    /\ merged_urls = <<>>
    /\ files = [f \in FileNames |-> Absent]
    /\ stdout = <<>>
    /\ log = <<>>
    /\ calls = <<>>
    /\ filesAtStart = files
    /\ stdoutAtStart = <<>>
    /\ visited = <<>>

NextFetch == FetchOk \/ FetchFail \/ FetchExhausted

SpecFetch == InitFetch /\ [][NextFetch]_vars

(***************************************************************************)
(* fetch_and_clean_urls from the response on, for every response made of   *)
(* at most MaxUrls tokens of Pool.                                         *)
(***************************************************************************)
InitUrls ==
    /\ pc = "fetched"
    /\ args \in [stream : {TRUE}, proxy : {<<>>}, placeholder : {NoPlaceholder, FUZZ},
                 extensions : {HARDCODED_EXTENSIONS}, output : {<<>>}]
    /\ response \in {[kind |-> "response", text |-> b] : b \in UrlBodies}
    /\ max_retries = DefaultMaxRetries
    /\ retries = 0
    /\ wait_time = InitialWait
    /\ exc = "none"
    /\ attempts = <<Get(<<>>, "ok")>>
    /\ slept = <<>>
    /\ domains = <<>>
    /\ domain = Host
    /\ output_file = OutputFile(<<>>, Host)
    /\ urls = <<>>
    /\ cleaned_urls = <<>>
    /\ merged_urls = <<>>
    /\ files = [f \in FileNames |-> Absent]
    /\ stdout = <<>>
    /\ log = <<Notice("fetching", 0)>>
    /\ calls = <<"fetch_returned_response">>
    /\ filesAtStart = files
    /\ stdoutAtStart = <<>>
    /\ visited = <<Host>>

NextUrls == SplitResponse \/ DoClean \/ DoMerge \/ DoWrite

SpecUrls == InitUrls /\ [][NextUrls]_vars

(***************************************************************************)
(* The properties.                                                         *)
(***************************************************************************)
Returned == pc = "fetched"
Succeeded == \E i \in 1..Len(attempts) : attempts[i].outcome = "ok"
AllFailed == \A i \in 1..Len(attempts) : attempts[i].outcome = "failed"
GaveUpNotices == {i \in 1..Len(log) : log[i].kind = "failed_after_retries"}

RECURSIVE Sum(_)
Sum(q) == IF q = <<>> THEN 0 ELSE q[1] + Sum(Tail(q))

\* C1: fetch_url_content returns the response exactly when some attempt
\* succeeds, at the first success and with no attempt or wait after it; it
\* returns None exactly when max_retries attempts in a row have failed; every
\* call ends in one of the two, and the terminal notice is logged only with None.
C1_FetchResult ==
    /\ Returned <=> response # Unset
    /\ Returned => response.kind \in {"response", "None"}
    /\ Succeeded <=> (Returned /\ response.kind = "response")
    /\ Succeeded =>
          /\ attempts[Len(attempts)].outcome = "ok"
          /\ \A i \in 1..(Len(attempts) - 1) : attempts[i].outcome = "failed"
          /\ Len(slept) = Len(attempts) - 1
    /\ Returned =>
          (response.kind = "None" <=> (AllFailed /\ Len(attempts) = max_retries))
    /\ Len(attempts) <= max_retries
    /\ (pc = "fetch" /\ AllFailed /\ Len(attempts) = max_retries) =>
          (ENABLED FetchExhausted /\ ~ENABLED FetchOk /\ ~ENABLED FetchFail)
    /\ pc = "fetch" => ENABLED NextFetch
    /\ (GaveUpNotices # {}) <=> (Returned /\ response.kind = "None")

\* The response comes back at the third attempt, after a failure of each kind.
C1_Witness ==
    /\ Returned
    /\ response.kind = "response"
    /\ Len(attempts) = 3
    /\ Len(slept) = 2
    /\ max_retries = 5
    /\ args.proxy = PROXY

\* C2: when every attempt fails, exactly max_retries GETs are made (for every
\* max_retries >= 1), the wait after the k-th failure is 10 + 5*(k-1), and the
\* terminal failure is reported after all of them; with max_retries = 5 that
\* is 5 attempts and 100 time-units of waiting.
C2_RetrySchedule ==
    /\ \A k \in 1..Len(slept) : slept[k] = 10 + 5 * (k - 1)
    /\ AllFailed => Len(slept) = Len(attempts)
    /\ \A i \in 1..Len(slept) : log[i] = Notice("retrying", slept[i])
    /\ (Returned /\ response.kind = "None" /\ max_retries >= 1) =>
          /\ AllFailed
          /\ Len(attempts) = max_retries
          /\ Len(slept) = max_retries
          /\ GaveUpNotices = {Len(log)}
          /\ Len(log) = max_retries + 1
    /\ (Returned /\ response.kind = "None" /\ max_retries = 5) =>
          /\ Len(attempts) = 5
          /\ slept = <<10, 15, 20, 25, 30>>
          /\ Sum(slept) = 100

\* Five attempts have failed, 100 time-units were slept, None is returned.
C2_Witness ==
    /\ Returned
    /\ response.kind = "None"
    /\ max_retries = 5
    /\ Len(attempts) = 5
    /\ Sum(slept) = 100

Processing == {"clean_urls", "merge_parameters", "write"}

\* C3: for a domain, cleaning, merging and writing happen only after its
\* fetch has returned a response; when the fetch returns None, clean_urls and
\* merge_parameters are never called, the output file is neither created nor
\* changed and nothing is printed.
C3_FetchThenProcess ==
    /\ \A i \in 1..Len(calls) :
          calls[i] \in Processing =>
             \E j \in 1..(i - 1) : calls[j] = "fetch_returned_response"
    /\ pc = "fetch" => (calls = <<>> /\ files = filesAtStart /\ stdout = stdoutAtStart)
    /\ (\E i \in 1..Len(calls) : calls[i] = "fetch_returned_None") =>
          /\ \A i \in 1..Len(calls) : calls[i] \notin Processing
          /\ files = filesAtStart
          /\ stdout = stdoutAtStart
          /\ pc \in {"fetched", "main", "exit"}

\* The second domain's fetch failed after the first domain's URLs were
\* appended to the shared output file and printed: both are as they were.
C3_Witness ==
    /\ pc = "main"
    /\ Len(visited) = 2
    /\ calls = <<"fetch_returned_None">>
    /\ args.stream
    /\ Len(stdout) = 1
    /\ files[output_file].exists
    /\ Len(files[output_file].lines) = 2

\* The Endpoint of a URL: its scheme, host and path.
EndpointId(u) ==
    Eval(UrlParse(u), LAMBDA p : <<p.scheme, p.netloc, p.path>>)

Merged == pc \in {"write", "main"}
Cleaned == pc \in {"merge", "write", "main"}

\* C4: the output of merge_parameters holds at most one URL per Endpoint
\* (scheme, host and path; query and fragment ignored).
C4_OneUrlPerEndpoint ==
    Merged =>
       \A i, j \in 1..Len(merged_urls) :
          i # j => EndpointId(merged_urls[i]) # EndpointId(merged_urls[j])

\* The parameter names of a URL's query, as parse_qsl lists them.
NamesOf(u) ==
    Eval(ParseQsl(UrlParse(u).query), LAMBDA q : {q[i][1] : i \in 1..Len(q)})
ValuesOf(u, name) ==
    Eval(ParseQsl(UrlParse(u).query), LAMBDA q :
        {q[i][2] : i \in {k \in 1..Len(q) : q[k][1] = name}})

\* C5: for every Endpoint group, the emitted URL's parameter names are the
\* union of the names of the group's cleaned URLs, each once, each bound to a
\* value seen for it in the group; a group without parameters yields a URL
\* with an empty query.
C5_MergedNamesAreUnion ==
    Merged =>
       \A c \in Range(cleaned_urls) :
          LET G == {g \in Range(cleaned_urls) : EndpointId(g) = EndpointId(c)}
              M == {i \in 1..Len(merged_urls) :
                      EndpointId(merged_urls[i]) = EndpointId(c)}
          IN /\ Cardinality(M) = 1
             /\ \A i \in M :
                   /\ NamesOf(merged_urls[i]) = UNION {NamesOf(g) : g \in G}
                   /\ Len(ParseQsl(UrlParse(merged_urls[i]).query))
                        = Cardinality(NamesOf(merged_urls[i]))
                   /\ \A n \in NamesOf(merged_urls[i]) :
                         ValuesOf(merged_urls[i], n)
                           \subseteq UNION {ValuesOf(g, n) : g \in G}
                   /\ (UNION {NamesOf(g) : g \in G} = {}) =>
                         UrlParse(merged_urls[i]).query = <<>>

\* The name=value pieces of a query as written: no decoding, blank values kept.
RawPairs(query) ==
    Eval(SplitOn(query, "&"), LAMBDA pieces :
        Eval({i \in 1..Len(pieces) : Find(pieces[i], "=", 1) > 0}, LAMBDA I :
            [k \in 1..Cardinality(I) |->
                Partition(pieces[CHOOSE i \in I :
                                   Cardinality({j \in I : j <= i}) = k], "=")]))
RawNames(query) ==
    Eval(RawPairs(query), LAMBDA q : {q[i][1] : i \in 1..Len(q)})
\* The values of `name` in a query, in order.
RawValues(query, name) ==
    Eval(RawPairs(query), LAMBDA q :
        Eval({i \in 1..Len(q) : q[i][1] = name}, LAMBDA I :
            [k \in 1..Cardinality(I) |->
                q[CHOOSE i \in I : Cardinality({j \in I : j <= i}) = k][2]]))

\* Whether the path of a URL has an extension of the set given to the run.
ExcludedExt(u) ==
    Eval(Lower(SplitExt(UrlParse(u).path)), LAMBDA x :
        \E i \in 1..Len(args.extensions) : args.extensions[i] = x)

\* The same URL but for the query.
SameButQuery(c, u) ==
    [UrlParse(c) EXCEPT !.query = <<>>] = [UrlParse(u) EXCEPT !.query = <<>>]

\* C6: with a placeholder, the rewritten query of a non-excluded URL holds
\* every parameter name as many times as the original query had values for
\* it, each bound to the placeholder.  (Stated for the names none of whose
\* values is empty, so that the fate of empty values, C9, does not decide it.)
C6_PlaceholderKeepsCount ==
    (Cleaned /\ args.placeholder # NoPlaceholder) =>
       \A t \in Range(urls) :
          ~ExcludedExt(t) =>
             \E c \in Range(cleaned_urls) :
                /\ SameButQuery(c, CleanUrl(t))
                /\ \A n \in RawNames(UrlParse(t).query) :
                      (\A i \in 1..Len(RawValues(UrlParse(t).query, n)) :
                            RawValues(UrlParse(t).query, n)[i] # <<>>)
                      => RawValues(UrlParse(c).query, n)
                           = [i \in 1..Len(RawValues(UrlParse(t).query, n)) |->
                                args.placeholder]

\* Whether the path of a URL ends in an extension of the excluded set, as
\* the path writes it or lowercased.
EndsInExcluded(u) ==
    Eval(SplitExt(UrlParse(u).path), LAMBDA x :
        \E i \in 1..Len(args.extensions) :
           args.extensions[i] = x \/ args.extensions[i] = Lower(x))

\* C7: no URL whose path ends in an excluded extension (whatever its query
\* and fragment, and also when the path writes the extension in another case
\* than the set does) is in the output of clean_urls, reaches
\* merge_parameters or is printed.
C7_NoExcludedExtension ==
    \A u \in Range(cleaned_urls) \cup Range(merged_urls) \cup Range(stdout) :
       ~EndsInExcluded(u)

AllRecords == PoolRecords \cup Range(ExampleRecords)
DefaultPort(r) ==
    (r.scheme = HTTP /\ r.port = PORT_80) \/ (r.scheme = HTTPS /\ r.port = PORT_443)

\* For every token, the token that differs from it by its explicit default
\* port only (itself when it has none), and the token without its port.
Twin ==
    [t \in {Format(r) : r \in AllRecords} |->
        Eval(CHOOSE r \in AllRecords : Format(r) = t, LAMBDA r :
            [twin |-> IF DefaultPort(r) THEN Format([r EXCEPT !.port = <<>>]) ELSE t,
             portless |-> Format([r EXCEPT !.port = <<>>])])]
TwinOf(t) == IF t \in DOMAIN Twin THEN Twin[t].twin ELSE t
Portless(t) == IF t \in DOMAIN Twin THEN Twin[t].portless ELSE t

\* The endpoints of a merged list, each with its parameter names.
Summary(list) == {<<Endpoint(u), NamesOf(u)>> : u \in Range(list)}

\* clean_urls then merge_parameters, in one of the orders they can take.
Pipeline(tokens) ==
    Eval(CleanUrls(tokens, args.extensions, args.placeholder), LAMBDA r :
        Eval(CHOOSE o \in Orders(r.urls) : TRUE, LAMBDA o :
            MergeParameters(o,
                CHOOSE f \in Picks(ValueSets(EndpointParams(o, <<>>))) : TRUE)))

\* C8: two URLs that differ only by an explicit default port (:80 with http,
\* :443 with https) are the same to the pipeline: clean_url maps both to one
\* string, and replacing one by the other never changes the merged endpoints;
\* another port is left as it is and keeps its own endpoint.  The end-to-end
\* scenario yields one URL, for http://example.com/a with parameter x.
C8_DefaultPortIdentity ==
    /\ \A t \in Range(urls) :
          /\ CleanUrl(t) = CleanUrl(TwinOf(t))
          /\ (t # MALFORMED /\ TwinOf(t) = t /\ Portless(t) # t) =>
                /\ CleanUrl(t) = t
                /\ Endpoint(CleanUrl(t)) # Endpoint(CleanUrl(Portless(t)))
    /\ pc = "write" =>
          Summary(merged_urls) = Summary(Pipeline([i \in 1..Len(urls) |-> TwinOf(urls[i])]))
    /\ (pc = "write" /\ urls = EXAMPLE) =>
          /\ Len(merged_urls) = 1
          /\ Endpoint(merged_urls[1]) = Format(Rec(HTTP, EXAMPLE_COM, <<>>, A_PATH, <<>>, <<>>))
          /\ NamesOf(merged_urls[1]) = {<<"x">>}

\* The end-to-end scenario, written out.
C8_Witness ==
    /\ pc = "main"
    /\ urls = EXAMPLE
    /\ Len(files[output_file].lines) = 1
    /\ TwinOf(urls[1]) # urls[1]

\* C9: without a placeholder, the cleaned query of a non-excluded URL carries
\* every parameter name of the original query with the same values, verbatim
\* and as many, a repeated name and an empty value included.
C9_ValuesKeptVerbatim ==
    (Cleaned /\ args.placeholder = NoPlaceholder) =>
       \A t \in Range(urls) :
          ~ExcludedExt(t) =>
             \E c \in Range(cleaned_urls) :
                /\ SameButQuery(c, CleanUrl(t))
                /\ \A n \in RawNames(UrlParse(t).query) :
                      RawValues(UrlParse(c).query, n) = RawValues(UrlParse(t).query, n)

\* C10: a token that cannot be parsed is skipped alone: clean_urls returns the
\* cleaned form of the other tokens, the domain's output is written and the
\* remaining domains are processed.
C10_BadTokenSkipped ==
    LET good == {i \in 1..Len(urls) : CleanUrl(urls[i]) # ValueError}
        others == [k \in 1..Cardinality(good) |->
                     urls[CHOOSE i \in good : Cardinality({j \in good : j <= i}) = k]]
    IN /\ pc # "crashed"
       /\ pc \in {"merge", "write"} =>
             Range(cleaned_urls) = CleanUrls(others, args.extensions, args.placeholder).urls

====
